---- MODULE Spec2Model ----
(***************************************************************************)
(* Model of the function-calling conversation loop of GoogleGenAIAgent     *)
(* (src/agents/google_gen_ai_agent.py).                                    *)
(*                                                                         *)
(* One agent instance is constructed (Init) and then invoked repeatedly.   *)
(* The recursion of _generate_content is unfolded into its steps: the      *)
(* model request with the two termination checks, one iteration of the     *)
(* dispatch loop, and the append of the two turns before the recursive     *)
(* call.  The model's response and the outcome of a tool callable are the  *)
(* environment's choice.                                                   *)
(*                                                                         *)
(* Python lists are objects: the dictionaries appended to `messages` hold  *)
(* references to self.merged_parts and self.merged_responses, not copies.  *)
(* A turn is therefore modelled as a role plus a reference (`ref`), and    *)
(* the transcript the model receives is the dereference of `messages` at   *)
(* the time of the request.                                                *)
(***************************************************************************)
EXTENDS Integers, Sequences, FiniteSets, TLC

\* ---- bounds of the model ----
MaxInvokes == 2     \* invoke calls made on the one agent instance
MaxParts == 2       \* largest number of parts in one model response
MaxRecords == 2     \* largest number of companies in sec_companies.json
MaxCoord == 2       \* embeddings are the points 0..MaxCoord

VARIABLES
    function_calling_num,   \* self.function_calling_num
    merged_parts,           \* self.merged_parts
    merged_responses,       \* self.merged_responses
    messages,               \* the list `messages` of the running invoke
    max_function_calling,   \* the parameter of the running invoke
    response,               \* parts of the response being processed
    i,                      \* position of the dispatch loop in response
    pc,                     \* where the running invoke is
    error,                  \* the exception that left invoke, if any
    result,                 \* the response invoke returned, if any
    \* history of the run, not read by the program
    invokes,                \* number of invoke calls started
    requests,               \* model requests issued by the running invoke
    rounds,                 \* dispatch rounds completed by the running invoke
    sent,                   \* the transcript of the latest model request
    dispatched,             \* callables invoked by the running invoke
    returns,                \* values the callables returned to the running invoke
    \* the company resolver (src/data/company_data_faiss.py)
    index,                  \* assets/faiss_index.index: one vector per row
    df,                     \* assets/df.pkl: the rows (title, cik_str)
    encoder,                \* the sentence encoder: text -> embedding
    answer                  \* what the latest query returned

agent_vars == <<function_calling_num, merged_parts, merged_responses, messages,
                max_function_calling, response, i, pc, error, result,
                invokes, requests, rounds, sent, dispatched, returns>>

resolver_vars == <<index, df, encoder, answer>>

vars == <<agent_vars, resolver_vars>>

\* ---- data ----

\* The registry of SecFilingAgent: {"find_cik": find_cik}.
functions == {"find_cik"}

\* Names the model may put in a tool-call part; one is not in the registry.
ToolNames == functions \cup {"get_filing"}

\* Arguments of a tool-call part: the company_name given to find_cik.
ArgValues == {"Amazon"}

\* Values callers pass as max_function_calling.
Limits == {1, 2}

\* A part of a response of invoke number c: text, or a function call.
TextPart(c) == [kind |-> "text", name |-> "", args |-> "", origin |-> c]

CallPart(n, a, c) == [kind |-> "call", name |-> n, args |-> a, origin |-> c]

PartsOf(c) ==
    {TextPart(c)} \cup {CallPart(n, a, c) : n \in ToolNames, a \in ArgValues}

\* The candidate's parts; a response holds one or more parts.
ResponsesOf(c) ==
    UNION {[1..n -> PartsOf(c)] : n \in 1..MaxParts}

\* Truthiness of part.function_call.
IsFunctionCall(part) == part.kind = "call"

\* The user's message of invoke number c.
UserMessage(c) == [kind |-> "message", name |-> "", args |-> "", origin |-> c]

\* ---- the company resolver ----

\* Company titles of sec_companies.json and their CIKs.
Titles == {"Amazon", "Apple"}

Ciks == {1018724, 320193}

\* Texts the encoder is applied to: the titles and the search queries.
Texts == Titles \cup {"amazon"}

\* A row of the DataFrame built from the JSON data.
Rows == [title : Titles, cik_str : Ciks]

\* The possible contents of sec_companies.json.
JsonData == UNION {[1..n -> Rows] : n \in 1..MaxRecords}

\* SentenceTransformer("all-mpnet-base-v2").encode, an arbitrary embedding.
Encoders == [Texts -> 0..MaxCoord]

\* The squared L2 distance of IndexFlatL2.
L2(a, b) == (a - b) * (a - b)

\* _create_index_and_save: the vectors of the titles, row by row, and the
\* DataFrame itself.
create_index_and_save(data, enc) ==
    [index |-> [k \in 1..Len(data) |-> enc[data[k].title]], df |-> data]

\* index.search(svec, k=1): a row at the least distance from the query.
search(idx, svec) ==
    {k \in 1..Len(idx) : \A j \in 1..Len(idx) : L2(idx[k], svec) <= L2(idx[j], svec)}

\* Variant: the CIK is read from the first row, the title from the match.
query_index_FirstRowCik(idx, d, enc, search_query) ==
    {[query |-> search_query, matched_index |-> k,
      company_name |-> d[k].title, cik |-> d[1].cik_str] :
        k \in search(idx, enc[search_query])}

\* _query_index: encode the query, search, and read title and cik_str of
\* the matched row of the DataFrame.
query_index(idx, d, enc, search_query) ==
    {[query |-> search_query, matched_index |-> k,
      company_name |-> d[k].title, cik |-> d[k].cik_str] :
        k \in search(idx, enc[search_query])}

NoAnswer == [query |-> "", matched_index |-> 0, company_name |-> "", cik |-> 0]

\* The assets the agent runs with.
AgentData ==
    <<[title |-> "Amazon", cik_str |-> 1018724],
      [title |-> "Apple", cik_str |-> 320193]>>

AgentEncoder == [t \in Texts |-> IF t = "Apple" THEN MaxCoord ELSE 0]

\* ---- tools and their results ----

\* A Python str value.
Str(text) == [type |-> "str", val |-> text]

\* The Python value None.
None == [type |-> "NoneType", val |-> <<>>]

\* find_cik returns the string f"{company_name}: {cik}", cik being the
\* identifier CompanyDataFaiss().query(company_name) returns.
find_cik(company_name) ==
    {Str(<<company_name, ": ", r.cik>>) :
        r \in query_index(index, df, encoder, company_name)}

\* The protobuf Value a Python value becomes in Struct.update.
ToValue(value) ==
    CASE value.type = "str" -> [string_value |-> value.val]
      [] value.type = "NoneType" -> [null_value |-> 0]

\* Variant: the return value is sent back under the tool's own key.
ToStruct_Bare(value) == [output |-> ToValue(value)]

\* s = Struct(); s.update({"result": result})
ToStruct(value) == [result |-> ToValue(value)]

\* Part(function_response=FunctionResponse(name=..., response=s))
FunctionResponsePart(n, s, c) ==
    [kind |-> "function_response", name |-> n, response |-> s, origin |-> c]

\* What calling the registry entry `callable` with `kwargs` can do.
Called(callable, kwargs) ==
    {[kind |-> "return", value |-> v, callable |-> callable, kwargs |-> kwargs] :
        v \in find_cik(kwargs)}
    \cup {[kind |-> "raise", value |-> None, callable |-> callable,
            kwargs |-> kwargs]}

NotCalled(kind) ==
    [kind |-> kind, value |-> None, callable |-> "", kwargs |-> ""]

\* Variant: functions.get(name), so that an unregistered name yields None.
call_function_Get(fn) ==
    IF fn.name \notin functions
    THEN {NotCalled("return")}
    ELSE Called(fn.name, fn.args)

\* Variant: a name that is not registered falls back to the first tool.
call_function_Fallback(fn) ==
    IF fn.name \notin functions
    THEN Called("find_cik", fn.args)
    ELSE Called(fn.name, fn.args)

\* call_function: functions[name](**args).  The lookup raises KeyError for
\* a name that is not in the registry; the callable returns or raises.
call_function(fn) ==
    IF fn.name \notin functions
    THEN {NotCalled("KeyError")}
    ELSE Called(fn.name, fn.args)

\* Variant: the callable runs under try/except, only the lookup can fail.
Propagates_LookupOnly(outcome) == outcome.kind = "KeyError"

\* An exception is not caught anywhere in _generate_content.
Propagates(outcome) == outcome.kind # "return"

\* Variant: the response is final only when no part is a function call.
NoFunctionCall_AnyPart(parts) ==
    \A k \in 1..Len(parts) : ~IsFunctionCall(parts[k])

\* `if not parts[0].function_call: return response`
NoFunctionCall(parts) == ~IsFunctionCall(parts[1])

\* Variants: the limit compared with >= and with an off-by-one allowance.
LimitExceeded_AtLimit(num, max) == num >= max

LimitExceeded_OneLate(num, max) == num > max + 1

\* `if self.function_calling_num > max_function_calling: return response`
LimitExceeded(num, max) == num > max

\* Variant: the transcript starts without the user turn.
SeedMessages_Empty == <<>>

\* Variants: the parts are merged before the checks; only the parts of the
\* current response are kept.
MergedPartsAfter_Always(mp, parts, final) == mp \o parts

MergedPartsAfter_Replace(mp, parts, final) == IF final THEN mp ELSE parts

\* self.merged_parts after the two checks: `self.merged_parts.extend(parts)`
\* is reached only when the response is not returned.
MergedPartsAfter(mp, parts, final) == IF final THEN mp ELSE mp \o parts

\* messages = [{"role": "user", "parts": [message]}]
SeedMessages == <<[role |-> "user", ref |-> "message"]>>

\* Variant: only the tool-result turn is appended.
NewTurns_ResultsOnly ==
    <<[role |-> "user", ref |-> "merged_responses"]>>

\* [{"role": "model", "parts": self.merged_parts},
\*  {"role": "user", "parts": self.merged_responses}]
NewTurns ==
    <<[role |-> "model", ref |-> "merged_parts"],
      [role |-> "user", ref |-> "merged_responses"]>>

\* The parts a turn refers to, read when the request is made.
Deref(turn, c, mp, mr) ==
    CASE turn.ref = "message" -> <<UserMessage(c)>>
      [] turn.ref = "merged_parts" -> mp
      [] turn.ref = "merged_responses" -> mr

\* What model.generate_content(messages) receives.
Transcript(msgs, c, mp, mr) ==
    [k \in 1..Len(msgs) |->
        [role |-> msgs[k].role, parts |-> Deref(msgs[k], c, mp, mr)]]

\* ---- the program ----

\* GoogleGenAIAgent.__init__.
Constructed ==
    /\ function_calling_num = 0
    /\ merged_parts = <<>>
    /\ merged_responses = <<>>
    /\ messages = <<>>
    /\ max_function_calling = 0
    /\ response = <<>>
    /\ i = 0
    /\ pc = "idle"
    /\ error = "none"
    /\ result = <<>>
    /\ invokes = 0
    /\ requests = 0
    /\ rounds = 0
    /\ sent = <<>>
    /\ dispatched = <<>>
    /\ returns = <<>>

\* The assets built by _create_index_and_save from the JSON data.
Loaded(data, enc) ==
    /\ index = create_index_and_save(data, enc).index
    /\ df = create_index_and_save(data, enc).df
    /\ encoder = enc
    /\ answer = NoAnswer

Init == Constructed /\ Loaded(AgentData, AgentEncoder)

\* invoke(message, max_function_calling), up to the call of _generate_content.
Invoke(max) ==
    /\ pc \in {"idle", "returned", "raised"}
    /\ invokes < MaxInvokes
    /\ invokes' = invokes + 1
    /\ messages' = SeedMessages
    /\ max_function_calling' = max
    /\ pc' = "generate"
    /\ response' = <<>>
    /\ i' = 0
    /\ error' = "none"
    /\ result' = <<>>
    /\ requests' = 0
    /\ rounds' = 0
    /\ sent' = <<>>
    /\ dispatched' = <<>>
    /\ returns' = <<>>
    /\ UNCHANGED <<function_calling_num, merged_parts, merged_responses>>
    /\ UNCHANGED resolver_vars

\* _generate_content from its entry to the start of the dispatch loop.
GenerateContent(parts) ==
    /\ pc = "generate"
    /\ function_calling_num' = function_calling_num + 1
    /\ requests' = requests + 1
    /\ sent' = Transcript(messages, invokes, merged_parts, merged_responses)
    /\ response' = parts
    /\ LET final == \/ NoFunctionCall(parts)
                    \/ LimitExceeded(function_calling_num',
                                     max_function_calling)
       IN /\ merged_parts' = MergedPartsAfter(merged_parts, parts, final)
          /\ IF final
             THEN /\ pc' = "returned"
                  /\ result' = parts
                  /\ UNCHANGED i
             ELSE /\ pc' = "dispatch"
                  /\ i' = 1
                  /\ UNCHANGED result
    /\ UNCHANGED <<merged_responses, messages, max_function_calling, error,
                   invokes, rounds, dispatched, returns>>
    /\ UNCHANGED resolver_vars

\* One iteration of `for part in response.parts`.
DispatchPart ==
    /\ pc = "dispatch"
    /\ i <= Len(response)
    /\ IF ~IsFunctionCall(response[i])
       THEN /\ i' = i + 1
            /\ UNCHANGED <<merged_responses, pc, error, dispatched, returns>>
       ELSE \E outcome \in call_function(response[i]) :
            /\ dispatched' =
                 IF outcome.kind = "KeyError"
                 THEN dispatched
                 ELSE Append(dispatched,
                             [round |-> requests, part |-> i,
                              name |-> outcome.callable,
                              args |-> outcome.kwargs,
                              outcome |-> outcome.kind])
            /\ IF Propagates(outcome)
               THEN /\ pc' = "raised"
                    /\ error' = outcome.kind
                    /\ UNCHANGED <<merged_responses, i, returns>>
               ELSE /\ returns' =
                         Append(returns,
                                [name |-> response[i].name,
                                 args |-> response[i].args,
                                 value |-> outcome.value])
                    /\ merged_responses' =
                         Append(merged_responses,
                                FunctionResponsePart(response[i].name,
                                                     ToStruct(outcome.value),
                                                     invokes))
                    /\ i' = i + 1
                    /\ UNCHANGED <<pc, error>>
    /\ UNCHANGED <<function_calling_num, merged_parts, messages,
                   max_function_calling, response, result, invokes, requests,
                   rounds, sent>>
    /\ UNCHANGED resolver_vars

\* `messages += [...]` and the recursive call, after the loop has ended.
AppendTurns ==
    /\ pc = "dispatch"
    /\ i > Len(response)
    /\ messages' = messages \o NewTurns
    /\ rounds' = rounds + 1
    /\ pc' = "generate"
    /\ UNCHANGED <<function_calling_num, merged_parts, merged_responses,
                   max_function_calling, response, i, error, result, invokes,
                   requests, sent, dispatched, returns>>
    /\ UNCHANGED resolver_vars

Next ==
    \/ \E max \in Limits : Invoke(max)
    \/ \E parts \in ResponsesOf(invokes) : GenerateContent(parts)
    \/ DispatchPart
    \/ AppendTurns

Spec == Init /\ [][Next]_vars

\* A started invoke runs on: every model request and every tool call returns.
Running ==
    \/ \E parts \in ResponsesOf(invokes) : GenerateContent(parts)
    \/ DispatchPart
    \/ AppendTurns

FairSpec == Spec /\ WF_vars(Running)

\* ---- the resolver on its own ----

\* CompanyDataFaiss.query: load the index and the DataFrame, then query.
Query(search_query) ==
    /\ answer' \in query_index(index, df, encoder, search_query)
    /\ UNCHANGED <<index, df, encoder>>
    /\ UNCHANGED agent_vars

ResolverInit ==
    /\ Constructed
    /\ \E data \in JsonData, enc \in Encoders : Loaded(data, enc)

ResolverNext == \E search_query \in Texts : Query(search_query)

ResolverSpec == ResolverInit /\ [][ResolverNext]_vars

\* ---- helpers of the properties ----

\* The positions k <= n of parts that are function calls, in order.
RECURSIVE CallIndices(_, _)
CallIndices(parts, n) ==
    IF n = 0 THEN <<>>
    ELSE IF IsFunctionCall(parts[n])
         THEN Append(CallIndices(parts, n - 1), n)
         ELSE CallIndices(parts, n - 1)

\* The callables invoked for the response being processed.
DispatchedNow == SelectSeq(dispatched, LAMBDA d : d.round = requests)

\* The invocation that dispatching part k of the response must make.
ExpectedEntry(k, how) ==
    [round |-> requests, part |-> k, name |-> response[k].name,
     args |-> response[k].args, outcome |-> how]

\* The invocations for the function calls among the first n parts.
Expected(n) ==
    [j \in 1..Len(CallIndices(response, n)) |->
        ExpectedEntry(CallIndices(response, n)[j], "return")]

\* A response has been received by the running invoke and not yet left behind.
Received == pc \in {"dispatch", "returned", "raised"}

UnknownAt(k) ==
    IsFunctionCall(response[k]) /\ response[k].name \notin functions

\* ---- C1 ----
\* C1: in every invoke call, the k-th model request of the call is issued
\* with the round counter equal to k (the counter restarts with each call).
C1_CounterPerCall ==
    requests > 0 => function_calling_num = requests

\* ---- C2 ----
\* C2: every transcript sent to the model during an invoke call holds only
\* parts of that call: its user message, parts of its responses and results
\* of its tool dispatches; nothing of an earlier invoke call.
C2_TranscriptOfThisCall ==
    \A k \in 1..Len(sent) :
        \A j \in 1..Len(sent[k].parts) :
            sent[k].parts[j].origin = invokes

\* ---- C3 ----
\* C3: a response whose first part is a function call and that is received
\* with the counter <= max_function_calling is never returned as-is; its
\* function-call parts are dispatched once each, in the order of the parts,
\* and all of them have been dispatched when the next request is issued.
C3_DispatchAllInOrder ==
    /\ pc = "returned" =>
          ~(IsFunctionCall(response[1])
            /\ function_calling_num <= max_function_calling)
    /\ pc = "dispatch" => DispatchedNow = Expected(i - 1)
    /\ (pc = "generate" /\ rounds > 0) =>
          DispatchedNow = Expected(Len(response))
    /\ (pc = "raised" /\ error = "KeyError") =>
          DispatchedNow = Expected(i - 1)
    /\ (pc = "raised" /\ error = "raise") =>
          DispatchedNow = Append(Expected(i - 1), ExpectedEntry(i, "raise"))

C3_Witness ==
    /\ pc = "generate"
    /\ rounds > 0
    /\ Len(response) = 2
    /\ Len(DispatchedNow) = 2

\* ---- C4 ----
\* C4: a response received with the counter > max_function_calling is
\* returned as it is, no function call of it is dispatched, and the call
\* issues no further model request.
C4_LimitReturnsAsIs ==
    (Received /\ function_calling_num > max_function_calling) =>
        /\ pc = "returned"
        /\ result = response
        /\ DispatchedNow = <<>>

C4_Witness ==
    /\ pc = "returned"
    /\ function_calling_num > max_function_calling
    /\ \A k \in 1..Len(response) : IsFunctionCall(response[k])
    /\ Len(response) = 2
    /\ result = response

C6_State ==
    /\ rounds <= max_function_calling
    /\ requests <= max_function_calling + 1
    /\ (requests = max_function_calling + 1 /\ invokes > 0) => pc = "returned"

C6_BoundedRounds ==
    /\ []C6_State
    /\ (pc \in {"generate", "dispatch"}) ~> (pc \in {"returned", "raised"})

C6_Witness ==
    /\ pc = "returned"
    /\ max_function_calling > 1
    /\ rounds = max_function_calling
    /\ requests = max_function_calling + 1

\* ---- C7 ----
\* C7: a function-call part naming a tool that is not in the registry makes
\* invoke fail (KeyError) without a response; the callable of no later part
\* is invoked and no further model request is issued; the loop never passes
\* over such a part.
C7_UnknownToolAborts ==
    /\ pc = "dispatch" => \A k \in 1..(i - 1) : ~UnknownAt(k)
    /\ (pc = "generate" /\ rounds > 0) =>
          \A k \in 1..Len(response) : ~UnknownAt(k)
    /\ error = "KeyError" =>
          /\ pc = "raised"
          /\ UnknownAt(i)
          /\ result = <<>>
          /\ \A j \in 1..Len(DispatchedNow) : DispatchedNow[j].part < i

C7_Witness ==
    /\ error = "KeyError"
    /\ i = 1
    /\ Len(response) = 2
    /\ IsFunctionCall(response[2])
    /\ ~UnknownAt(2)

\* ---- C8 ----
\* C8: a tool callable that raises aborts the call: it was invoked once and
\* is the last callable invoked, invoke returns no response, and no later
\* dispatch or model request happens in the call.
C8_ToolFailureAborts ==
    /\ \A j \in 1..Len(dispatched) :
          dispatched[j].outcome = "raise" =>
              /\ j = Len(dispatched)
              /\ pc = "raised"
              /\ error = "raise"
    /\ error = "raise" =>
          /\ pc = "raised"
          /\ result = <<>>
          /\ Len(dispatched) > 0
          /\ dispatched[Len(dispatched)] = ExpectedEntry(i, "raise")
          /\ Cardinality({j \in 1..Len(dispatched) :
                            /\ dispatched[j].round = requests
                            /\ dispatched[j].part = i}) = 1

C8_Witness ==
    /\ error = "raise"
    /\ i = 1
    /\ Len(response) = 2
    /\ IsFunctionCall(response[2])
    /\ rounds = 1

\* ---- C9 ----
\* C9: the transcript sent with a request after N completed dispatch rounds
\* of the call has 1 + 2N turns: the user turn of the call, then for each
\* round a model turn followed by a tool-result turn.
C9_TranscriptLength ==
    Received =>
        /\ Len(sent) = 1 + 2 * rounds
        /\ sent[1] = [role |-> "user", parts |-> <<UserMessage(invokes)>>]
        /\ \A k \in 1..rounds :
              /\ sent[2 * k].role = "model"
              /\ \A j \in 1..Len(sent[2 * k].parts) :
                    sent[2 * k].parts[j].kind \in {"text", "call"}
              /\ sent[2 * k + 1].role = "user"
              /\ \A j \in 1..Len(sent[2 * k + 1].parts) :
                    sent[2 * k + 1].parts[j].kind = "function_response"

C9_Witness ==
    /\ pc = "returned"
    /\ rounds = 2
    /\ Len(sent) = 5

\* ---- C10 ----
\* C10: on a fresh agent, when the first response is a single function call
\* of a registered tool and the second response is plain text, invoke
\* dispatches the tool once, makes exactly 2 model requests, returns the
\* second response, and the transcript of the final request has 3 turns:
\* user, model, tool-result.
FirstCallTurns ==
    {<<[role |-> "user", parts |-> <<UserMessage(1)>>],
       [role |-> "model", parts |-> <<CallPart("find_cik", "Amazon", 1)>>],
       [role |-> "user",
        parts |-> <<FunctionResponsePart("find_cik", ToStruct(v), 1)>>]>> :
        v \in find_cik("Amazon")}

C10_EndToEnd ==
    /\ (/\ invokes = 1
        /\ requests = 1
        /\ Received
        /\ response = <<CallPart("find_cik", "Amazon", 1)>>) => pc # "returned"
    /\ (/\ invokes = 1
        /\ requests = 2
        /\ Received
        /\ merged_parts = <<CallPart("find_cik", "Amazon", 1)>>
        /\ \A k \in 1..Len(response) : response[k].kind = "text") =>
            /\ pc = "returned"
            /\ result = response
            /\ Len(dispatched) = 1
            /\ dispatched[1].name = "find_cik"
            /\ sent \in FirstCallTurns

C10_Witness ==
    /\ invokes = 1
    /\ pc = "returned"
    /\ requests = 2
    /\ merged_parts = <<CallPart("find_cik", "Amazon", 1)>>
    /\ result = <<TextPart(1)>>

\* ---- C11 ----
\* C11: every tool-result part the running invoke places in the transcript
\* carries the name of the function call it answers, and its payload has the
\* single key "result" holding the value the registry callable returned for
\* the arguments of that call.
C11_ResultPayload ==
    LET n == Len(returns)
        base == Len(merged_responses) - n
    IN /\ base >= 0
       /\ \A j \in 1..n :
             LET p == merged_responses[base + j]
             IN /\ p.kind = "function_response"
                /\ p.name = returns[j].name
                /\ DOMAIN p.response = {"result"}
                /\ returns[j].value.type = "str"
                /\ p.response.result = [string_value |-> returns[j].value.val]
                /\ returns[j].value \in find_cik(returns[j].args)

C11_Witness ==
    /\ pc = "generate"
    /\ rounds = 1
    /\ Len(returns) = 2
    /\ Len(merged_responses) = 2

\* ---- C12 ----
\* C12: query returns the title and the cik_str of one and the same row of
\* the DataFrame, and that row is a nearest one of the index; with a single
\* record it returns that record whatever the search text is.
C12_NearestSameRow ==
    answer # NoAnswer =>
        LET k == answer.matched_index
        IN /\ k \in 1..Len(df)
           /\ answer.company_name = df[k].title
           /\ answer.cik = df[k].cik_str
           /\ \A j \in 1..Len(index) :
                 L2(index[k], encoder[answer.query])
                     <= L2(index[j], encoder[answer.query])
           /\ Len(df) = 1 =>
                 /\ answer.company_name = df[1].title
                 /\ answer.cik = df[1].cik_str

C12_Witness ==
    /\ answer # NoAnswer
    /\ Len(df) = 2
    /\ answer.matched_index = 2
    /\ df[1].cik_str # df[2].cik_str
    /\ answer.query = "amazon"

\* ---- C13 ----
\* C13: within one invoke call, every turn of the transcript of a model
\* request is found unchanged, at the same position, in the transcript of
\* the next model request.
C13_TurnsAppendOnly ==
    [][(invokes' = invokes /\ requests' = requests + 1) =>
          /\ Len(sent) <= Len(sent')
          /\ \A k \in 1..Len(sent) : sent'[k] = sent[k]]_vars

\* ---- C14 ----
\* C14: the model turn appended at the end of a dispatch round holds exactly
\* the parts of that round's response, and the tool-result turn appended
\* holds exactly the results of that round's dispatches.
C14_TurnsOfThisRound ==
    (pc = "generate" /\ rounds > 0) =>
        LET t == Transcript(messages, invokes, merged_parts, merged_responses)
            n == Len(t)
        IN /\ t[n - 1].role = "model"
           /\ t[n - 1].parts = response
           /\ t[n].role = "user"
           /\ Len(t[n].parts) = Len(DispatchedNow)
           /\ \A j \in 1..Len(DispatchedNow) :
                 t[n].parts[j].name = DispatchedNow[j].name

\* ---- C15 ----
\* C15: within one invoke call merged_parts and merged_responses only grow:
\* after every step the earlier content of each is a prefix of the new one.
IsPrefix(a, b) ==
    /\ Len(a) <= Len(b)
    /\ \A k \in 1..Len(a) : b[k] = a[k]

C15_AccumulatorsGrow ==
    [][invokes' = invokes =>
          /\ IsPrefix(merged_parts, merged_parts')
          /\ IsPrefix(merged_responses, merged_responses')]_vars

C15_Witness ==
    /\ invokes = 1
    /\ rounds = 2
    /\ Len(merged_parts) = 4
    /\ Len(merged_responses) = 3

\* ---- C16 ----
\* C16: every callable invoked for the response being processed is the
\* registry entry named by a function-call part of that response and was
\* given the arguments of that part; none is invoked for a text part or
\* for a name outside the registry.
C16_DispatchInRegistry ==
    \A j \in 1..Len(DispatchedNow) :
        LET d == DispatchedNow[j]
        IN /\ d.part \in 1..Len(response)
           /\ IsFunctionCall(response[d.part])
           /\ d.name \in functions
           /\ d.name = response[d.part].name
           /\ d.args = response[d.part].args

C16_Witness ==
    /\ pc = "raised"
    /\ error = "KeyError"
    /\ i = 2
    /\ Len(DispatchedNow) = 1
    /\ DispatchedNow[1].name = "find_cik"

\* ---- C17 ----
\* C17: in every transcript sent to the model each model turn is directly
\* followed by a tool-result turn with one result per function-call part of
\* the model turn, in the same order and with the same names.
NamesOf(parts, wanted) ==
    LET chosen == SelectSeq(parts, LAMBDA q : q.kind = wanted)
    IN [j \in 1..Len(chosen) |-> chosen[j].name]

C17_RequestResultPairing ==
    \A k \in 1..Len(sent) :
        sent[k].role = "model" =>
            /\ k < Len(sent)
            /\ sent[k + 1].role = "user"
            /\ \A j \in 1..Len(sent[k + 1].parts) :
                  sent[k + 1].parts[j].kind = "function_response"
            /\ NamesOf(sent[k + 1].parts, "function_response")
                   = NamesOf(sent[k].parts, "call")

\* ---- C18 ----
\* C18: the step in which invoke returns (by either termination check) adds
\* one to the round counter and leaves merged_parts, merged_responses and
\* the transcript as they were.
C18_ReturnKeepsState ==
    [][(pc = "generate" /\ pc' = "returned") =>
          /\ function_calling_num' = function_calling_num + 1
          /\ merged_parts' = merged_parts
          /\ merged_responses' = merged_responses
          /\ messages' = messages
          /\ Transcript(messages', invokes', merged_parts', merged_responses')
                 = sent']_vars

C18_Witness ==
    /\ pc = "returned"
    /\ rounds = 1
    /\ Len(result) = 2
    /\ IsFunctionCall(result[1])
    /\ Len(merged_parts) = 1
    /\ Len(merged_responses) = 1

====
